---- MODULE Spec2Model ----
(***************************************************************************)
(* Two-pass tile-to-road population assignment (get_density) of            *)
(* src/src/popdensityV4.py and src/src/popdensityV5.py, and the            *)
(* nearest-tile assignment with shares of src/src/popdensityV3.py, which   *)
(* reads the roads and filters the CSV as the other two do.                *)
(*                                                                         *)
(* Coordinates are integers counting tile half-widths (1/7200 degree):     *)
(* a longitude n is n/7200 degrees, a latitude n is 60 degrees + n/7200    *)
(* degrees.  At 60 degrees north cos(lat) = 1/2, so one unit of latitude   *)
(* is 15.44 m and one unit of longitude 7.72 m on the sphere of            *)
(* _haversine_m; over the few units the model spans, the haversine         *)
(* distance and the cos(avg_lat) scaling of _get_density_fast differ from  *)
(* these values by less than 1e-4, and no threshold of the model lies      *)
(* that close to a distance between two grid points.                       *)
(* Populations are integers (float rounding is not modelled).              *)
(* The population source is a CSV file with a header line and three        *)
(* columns, or no file at all.                                             *)
(***************************************************************************)
EXTENDS Integers, Sequences, FiniteSets, TLC

\* ---------------------------------------------------------------- bounds
MaxRoads == 2
MaxRows == 3
MaxCalls == 2

\* ------------------------------------------------------ optional values
None == << >>
Some(v) == << v >>

Min(S) == CHOOSE m \in S : \A o \in S : m <= o
Max(S) == CHOOSE m \in S : \A o \in S : m >= o

EmptyMap == [k \in {} |-> 0]

\* ------------------------------------------------- text fields of a row
Txt(n) == [num |-> n, form |-> "plain"]
TxtPad(n) == [num |-> n, form |-> "pad"]
TxtZero(n) == [num |-> n, form |-> "zero"]
TxtBad == [num |-> 0, form |-> "bad"]

\* float(text): "2", " 2" and "2.0" all parse to 2; "bad" text raises.
float(t) == IF t.form = "bad" THEN None ELSE Some(t.num)

\* text.strip(): only the surrounding blanks go, "2.0" stays "2.0".
strip(t) == IF t.form = "pad" THEN [t EXCEPT !.form = "plain"] ELSE t

MkRow(lo, la, po) == [lon |-> lo, lat |-> la, pop |-> po]

\* key = (row[lon_field].strip(), row[lat_field].strip())
KeyOf(row) == << strip(row.lon), strip(row.lat) >>

\* unique_csv_centers[key]: the floats parsed from the first row of the key
CenterOf(key) == << key[1].num, key[2].num >>

\* ------------------------------------------------------------ the inputs
MkNode(g, x, y) == [geometry |-> g, x |-> x, y |-> y, pop_density |-> None]

\* a road with a geometry, a road with x and y, a road with neither
RoadsWithCenter ==
  { MkNode(Some(<<1, 0>>), None, None),
    MkNode(None, Some(3), Some(4)) }

NodeCandidates == RoadsWithCenter \cup { MkNode(None, None, None) }

RECURSIVE SeqsUpTo(_, _)
SeqsUpTo(S, n) ==
  IF n = 0 THEN { << >> }
  ELSE LET shorter == SeqsUpTo(S, n - 1)
       IN shorter \cup { Append(s, e) : s \in { t \in shorter : Len(t) = n - 1 }, e \in S }

Graphs == SeqsUpTo(NodeCandidates, MaxRoads)

\* Rows of the population CSV.  With roads at (1,0) and (3,4) the road box
\* is lon 1..3, lat 0..4 and the padded box lon 0..4, lat -1..5; with the
\* road at (1,0) alone the padded box is lon 0..2, lat -1..1.
TileRows ==
  { MkRow(Txt(2), Txt(1), Txt(5)),       \* strictly inside the road box
    MkRow(TxtPad(2), Txt(1), Txt(7)),    \* the same key, written " 2"
    MkRow(Txt(0), Txt(2), Txt(3)) }      \* a second tile, 32 m from road (1,0)

\* the tile rows written without blanks
PlainTileRows == { r \in TileRows : r.lon.form = "plain" }

OtherRows ==
  { MkRow(Txt(2), Txt(6), Txt(11)),      \* north of the padded box
    MkRow(Txt(5), Txt(2), Txt(13)),      \* east of the padded box
    MkRow(Txt(2), Txt(-2), Txt(17)),     \* south of the padded box
    MkRow(Txt(2), TxtBad, Txt(1)) }      \* latitude does not parse

\* Rows whose population is negative or zero; the second cancels the first
\* row of TileRows, which has the same key.
ValueRows ==
  { MkRow(Txt(2), Txt(1), Txt(5)),
    MkRow(Txt(2), Txt(1), Txt(-5)),
    MkRow(Txt(0), Txt(2), Txt(0)) }

\* Rows with one field that float() rejects; the other two fields would
\* put the row inside the box.
BadRows ==
  { MkRow(TxtBad, Txt(1), Txt(5)),
    MkRow(Txt(2), TxtBad, Txt(5)),
    MkRow(Txt(2), Txt(1), TxtBad) }

\* Roads as a caller may hand them over: with a geometry, with x = 0 (a
\* road on the zero meridian), and with a pop_density left by an earlier run.
ZeroLonRoad == MkNode(None, Some(0), Some(1))

AnnotatedRoad ==
  [MkNode(Some(<<1, 0>>), None, None) EXCEPT !.pop_density = Some(4)]

CallerRoads == { MkNode(Some(<<1, 0>>), None, None), ZeroLonRoad, AnnotatedRoad }

\* two tiles at the same distance from the road at (1,0)
TieRows ==
  { MkRow(Txt(2), Txt(1), Txt(5)),
    MkRow(Txt(0), Txt(1), Txt(3)) }

\* Roads at (5,1) and (2,3).  The tile at (2,1) is 2 units (30.9 m) south of
\* the second road and 3 units (23.2 m) west of the first: nearer to the
\* second in degrees, nearer to the first in metres.  The tiles at (5,2)
\* and (4,2) are 15.4 m and 17.3 m from the first road.  No two tiles are
\* at the same distance from a road, no two roads from a tile.
GeometryRoads ==
  { MkNode(Some(<<5, 1>>), None, None),
    MkNode(None, Some(2), Some(3)) }

GeometryRows ==
  { MkRow(Txt(2), Txt(1), Txt(5)),
    MkRow(Txt(5), Txt(2), Txt(3)),
    MkRow(Txt(4), Txt(2), Txt(7)) }

Thresholds == { None, Some(0), Some(25), Some(50) }

Engines ==
  { [version |-> "V4", kd_tie |-> "first"],
    [version |-> "V5slow", kd_tie |-> "first"],
    [version |-> "V5fast", kd_tie |-> "first"],
    [version |-> "V5fast", kd_tie |-> "last"],
    [version |-> "V3", kd_tie |-> "first"] }

\* tile_half_ddeg = 1.0/7200.0: one unit of the grid
tile_half_ddeg == 1

VARIABLES
  engine,                 \* which module runs, and how its KD-tree breaks ties
  G,                      \* the graph: node id -> node data
  pc,                     \* position inside get_density ("idle" between calls)
  outcome,                \* how the last call returned
  calls,                  \* number of invocations so far
  rows,                   \* the CSV rows of the current call
  assume_sorted_by_lat,   \* argument
  far_thresh_m,           \* argument (None or metres)
  verbose,                \* argument of popdensityV5.get_density
  centers,                \* road centers, in node order
  index_to_node,          \* index in centers -> node id
  row_i,                  \* rows consumed by the reader
  seen_in_range,
  tile_pop,               \* key -> aggregated population
  tile_keys,              \* keys of unique_csv_centers in insertion order
  road_i,                 \* roads processed by pass 1
  tiles_used,             \* tiles_used_pass1 (V4) / tiles_used (V5)
  tiles_pending,          \* leftover tiles pass 2 has still to visit
  tiles_used_pass2,
  tiles_too_far_pass2,
  road_assignments,       \* node id -> accumulated population
  road_tile_assignments,  \* the assignments made, in order
  csv_exists,             \* whether a file exists at csv_path
  graph_attrs,            \* G.graph: the analysis data V4 stores on the graph
  summary                 \* what the last analyze_density returned

vars ==
  << engine, G, pc, outcome, calls, rows, assume_sorted_by_lat, far_thresh_m,
     verbose,
     centers, index_to_node, row_i, seen_in_range, tile_pop, tile_keys, road_i,
     tiles_used, tiles_pending, tiles_used_pass2, tiles_too_far_pass2,
     road_assignments, road_tile_assignments, csv_exists, graph_attrs,
     summary >>

\* what get_density never touches
caller == << csv_exists, summary >>

frame ==
  << rows, assume_sorted_by_lat, far_thresh_m, verbose, centers, index_to_node, row_i,
     seen_in_range, tile_pop, tile_keys, road_i, tiles_used, tiles_pending,
     tiles_used_pass2, tiles_too_far_pass2, road_assignments,
     road_tile_assignments >>

\* ------------------------------------------------------- road centers
\* x = data.get('x') or data.get('lon') or data.get('long'): a missing or
\* falsy (0) x falls through to 'lon' and 'long', which no node carries.
FirstTruthyLon(data) ==
  IF data.x # None /\ data.x[1] # 0 THEN data.x ELSE None

\* y = data.get('y') or data.get('lat'): a latitude near 60 degrees is
\* never falsy.
FirstTruthyLat(data) == data.y

\* a road without coordinates placed at the origin
CenterDefaultsToOrigin(data) ==
  IF data.geometry # None THEN data.geometry
  ELSE LET x == FirstTruthyLon(data)
           y == FirstTruthyLat(data)
       IN IF x # None /\ y # None THEN Some(<< x[1], y[1] >>) ELSE Some(<< 0, 0 >>)

center_from_node_data(data) ==
  IF data.geometry # None THEN data.geometry
  ELSE LET x == FirstTruthyLon(data)
           y == FirstTruthyLat(data)
       IN IF x # None /\ y # None THEN Some(<< x[1], y[1] >>) ELSE None

\* the guard left out
AlreadyAnnotatedNever(g) == FALSE

AlreadyAnnotated(g) == \E n \in 1..Len(g) : g[n].pop_density # None

\* the attribute left uninitialised
InitPopDensitySkipped(g) == g

\* data['pop_density'] = 0.0 on every node
InitPopDensity(g) == [n \in 1..Len(g) |-> [g[n] EXCEPT !.pop_density = Some(0)]]

RECURSIVE NodesWithCenter(_, _)
NodesWithCenter(g, n) ==
  IF n > Len(g) THEN << >>
  ELSE IF center_from_node_data(g[n]) = None THEN NodesWithCenter(g, n + 1)
       ELSE << n >> \o NodesWithCenter(g, n + 1)

CentersOf(g) ==
  LET ns == NodesWithCenter(g, 1)
  IN [i \in 1..Len(ns) |-> center_from_node_data(g[ns[i]])[1]]

\* ------------------------------------------------------- bounding box
Lons(cs) == { cs[i][1] : i \in 1..Len(cs) }
Lats(cs) == { cs[i][2] : i \in 1..Len(cs) }

BBox(cs) ==
  [west |-> Min(Lons(cs)) - tile_half_ddeg,
   east |-> Max(Lons(cs)) + tile_half_ddeg,
   south |-> Min(Lats(cs)) - tile_half_ddeg,
   north |-> Max(Lats(cs)) + tile_half_ddeg]

\* the box test without its eastern side
OutOfBoxNoEast(lon, lat, box) ==
  lon < box.west \/ lat < box.south \/ lat > box.north

OutOfBox(lon, lat, box) ==
  lon < box.west \/ lon > box.east \/ lat < box.south \/ lat > box.north

\* ---------------------------------------------------- CSV tile filter
\* a population that does not parse read as 0.0
ParseRowBadPopAsZero(row) ==
  LET lo == float(row.lon)
      la == float(row.lat)
      v == float(row.pop)
  IN IF lo = None \/ la = None THEN None
     ELSE Some([lon |-> lo[1], lat |-> la[1], val |-> IF v = None THEN 0 ELSE v[1]])

\* lon = float(...); lat = float(...); val = float(...) in one try block
ParseRow(row) ==
  LET lo == float(row.lon)
      la == float(row.lat)
      v == float(row.pop)
  IN IF lo = None \/ la = None \/ v = None THEN None
     ELSE Some([lon |-> lo[1], lat |-> la[1], val |-> v[1]])

\* the early exit taken whether or not the source is declared sorted
EarlyExitIgnoringFlag(lat, box, assume, seen) ==
  ~(lat < box.south) /\ lat > box.north /\ seen

\* the early exit taken on any row out of the box that is not south of it
EarlyExitAnyOutOfBox(lat, box, assume, seen) ==
  assume /\ ~(lat < box.south) /\ seen

\* if assume_sorted_by_lat: ... if lat > north and seen_in_range: break
EarlyExit(lat, box, assume, seen) ==
  assume /\ ~(lat < box.south) /\ lat > box.north /\ seen

\* a later row overwriting the earlier ones
AggregateOverwrite(tp, key, val) ==
  IF key \in DOMAIN tp THEN [tp EXCEPT ![key] = val] ELSE tp @@ (key :> val)

\* tile_pop[key] = tile_pop.get(key, 0.0) + val
Aggregate(tp, key, val) ==
  IF key \in DOMAIN tp THEN [tp EXCEPT ![key] = @ + val] ELSE tp @@ (key :> val)

NoTiles == [tile_pop |-> EmptyMap, tile_keys |-> << >>, seen |-> FALSE, stop |-> FALSE]

\* One iteration of `for row in reader`.
FilterStep(st, row, box, assume) ==
  LET p == ParseRow(row)
  IN IF p = None THEN st
     ELSE IF OutOfBox(p[1].lon, p[1].lat, box)
          THEN [st EXCEPT !.stop = EarlyExit(p[1].lat, box, assume, st.seen)]
          ELSE LET key == KeyOf(row)
               IN [tile_pop |-> Aggregate(st.tile_pop, key, p[1].val),
                   tile_keys |-> IF key \in DOMAIN st.tile_pop THEN st.tile_keys
                                 ELSE Append(st.tile_keys, key),
                   seen |-> TRUE,
                   stop |-> FALSE]

\* -------------------------------------------------------- distances
Sq(n) == n * n

\* d2 = dx*dx + dy*dy in degrees (units) squared
D2(p, q) == Sq(p[1] - q[1]) + Sq(p[2] - q[2])

\* four times the squared distance once longitude is scaled by cos(60) = 1/2
Scaled4(p, q) == Sq(p[1] - q[1]) + 4 * Sq(p[2] - q[2])

\* R * pi / 180 / 7200 = 15.4437 m: centimetres per unit of latitude
HavCmPerUnit == 1544

\* deg_per_m = 1/111000 and 7200 units per degree: 185/12 metres per unit
MPerUnitNum == 185
MPerUnitDen == 12

\* _haversine_m(p, q) > t, squared and in centimetres
HaversineExceeds(p, q, t) == Sq(HavCmPerUnit) * Scaled4(p, q) > 4 * Sq(100 * t)

\* far_thresh_deg = far_thresh_m * deg_per_m if far_thresh_m else None
far_thresh_deg(thr) == IF thr = None \/ thr[1] = 0 THEN None ELSE thr

\* math.sqrt(d2) > far_thresh_deg, squared
DegreesExceed(p, q, t) == Sq(MPerUnitNum) * D2(p, q) > Sq(MPerUnitDen) * Sq(t)

\* KD-tree distance in scaled degrees > far_thresh_deg, squared
ScaledDegreesExceed(p, q, t) ==
  Sq(MPerUnitNum) * Scaled4(p, q) > 4 * Sq(MPerUnitDen) * Sq(t)

\* the threshold test with a missing threshold read as 0
TooFarNoneAsZero(version, thr, p, q) ==
  LET t == IF thr = None THEN 0 ELSE thr[1]
  IN IF version = "V4" THEN HaversineExceeds(p, q, t)
     ELSE IF version = "V5slow" THEN DegreesExceed(p, q, t)
          ELSE ScaledDegreesExceed(p, q, t)

\* The threshold test of both passes: TRUE when the pair is rejected.
TooFar(version, thr, p, q) ==
  IF version = "V4" THEN thr # None /\ HaversineExceeds(p, q, thr[1])
  ELSE LET td == far_thresh_deg(thr)
       IN IF version = "V5slow" THEN td # None /\ DegreesExceed(p, q, td[1])
          ELSE td # None /\ ScaledDegreesExceed(p, q, td[1])

\* ---------------------------------------------------- nearest search
\* the loop with <= in place of <: among equidistant points the last wins
RECURSIVE LinearNearestLastWins(_, _, _, _)
LinearNearestLastWins(pts, p, i, best) ==
  IF i > Len(pts) THEN best
  ELSE IF best = 0 \/ D2(p, pts[i]) <= D2(p, pts[best])
       THEN LinearNearestLastWins(pts, p, i + 1, i)
       ELSE LinearNearestLastWins(pts, p, i + 1, best)

\* The loop of _find_nearest_tile / _find_nearest_road:
\*   if best_d2 is None or d2 < best_d2: best = this one
RECURSIVE LinearNearest(_, _, _, _)
LinearNearest(pts, p, i, best) ==
  IF i > Len(pts) THEN best
  ELSE IF best = 0 \/ D2(p, pts[i]) < D2(p, pts[best])
       THEN LinearNearest(pts, p, i + 1, i)
       ELSE LinearNearest(pts, p, i + 1, best)

\* cKDTree.query(k=1) on the scaled coordinates; which of several
\* equidistant points it returns depends on the tree's layout.
KDNearest(pts, p, tie) ==
  LET best == { i \in 1..Len(pts) :
                  \A j \in 1..Len(pts) : Scaled4(p, pts[i]) <= Scaled4(p, pts[j]) }
  IN IF tie = "first" THEN Min(best) ELSE Max(best)

Nearest(eng, pts, p) ==
  IF eng.version = "V5fast" THEN KDNearest(pts, p, eng.kd_tie)
  ELSE LinearNearest(pts, p, 1, 0)

TileCenters(keys) == [i \in 1..Len(keys) |-> CenterOf(keys[i])]

\* pass 1: the tile nearest to road center p
find_nearest_tile(eng, keys, p) == keys[Nearest(eng, TileCenters(keys), p)]

\* pass 2: the index of the road nearest to the tile
find_nearest_road(eng, cs, key) == Nearest(eng, cs, CenterOf(key))

\* road_tile_assignments[n].append(...) / road_assignments[n] += pop
MkAssignment(n, key, pass, pop) == [node |-> n, key |-> key, pass |-> pass, pop |-> pop]

Accumulate(ra, n, pop) ==
  IF n \in DOMAIN ra THEN [ra EXCEPT ![n] = @ + pop] ELSE ra @@ (n :> pop)

RECURSIVE SumPops(_, _)
SumPops(as, n) ==
  IF as = << >> THEN 0
  ELSE (IF as[1].node = n THEN as[1].pop ELSE 0) + SumPops(Tail(as), n)

\* only the last tile of a road written, the earlier ones dropped
WritePopDensityLastOnly(g, version, ra, as) ==
  [n \in 1..Len(g) |->
     IF n \in DOMAIN ra
     THEN LET mine == { a \in 1..Len(as) : as[a].node = n }
          IN [g[n] EXCEPT !.pop_density = Some(as[Max(mine)].pop)]
     ELSE g[n]]

\* G.nodes[n]['pop_density'] = total, for every node that has assignments
WritePopDensity(g, version, ra, as) ==
  [n \in 1..Len(g) |->
     IF n \in DOMAIN ra
     THEN [g[n] EXCEPT !.pop_density =
             Some(IF version = "V4" THEN SumPops(as, n) ELSE ra[n])]
     ELSE g[n]]

RECURSIVE SumMap(_, _)
SumMap(f, S) ==
  IF S = {} THEN 0
  ELSE LET k == CHOOSE e \in S : TRUE IN f[k] + SumMap(f, S \ { k })

\* total_pop_bbox = sum(tile_pop.values())
total_pop_bbox(tp) == SumMap(tp, DOMAIN tp)

\* V4 prints 100.0*total_pop_assigned/total_pop_bbox after the attributes
\* are written; V5 prints the same quotient only `if verbose`.
CoverageDivides(version, verb) == version = "V4" \/ verb

\* G.graph['_v4_road_tile_assignments'], G.graph['_v4_tile_pop'], ...
AnalysisData(as, tp) == Some([road_tile_assignments |-> as, tile_pop |-> tp])

\* analyze_density: values = the pop_density of the nodes where it is > 0
\* (a node without the attribute counts as 0.0); the statistics are added
\* to the summary only `if values`.
PositiveNodes(g) ==
  { n \in 1..Len(g) : g[n].pop_density # None /\ g[n].pop_density[1] > 0 }

Summarize(g) ==
  LET vs == PositiveNodes(g)
      val == [n \in 1..Len(g) |-> IF n \in vs THEN g[n].pop_density[1] ELSE 0]
  IN [total_nodes |-> Len(g),
      nodes_with_pop |-> Cardinality(vs),
      nodes_zero_pop |-> Len(g) - Cardinality(vs),
      stats |-> IF vs = {} THEN None
                ELSE Some([pop_min |-> Min({ val[n] : n \in vs }),
                           pop_max |-> Max({ val[n] : n \in vs }),
                           pop_total |-> SumMap(val, vs)])]

\* ------------------------------------------------ popdensityV3: shares
RECURSIVE Factorial(_)
Factorial(n) == IF n <= 1 THEN 1 ELSE n * Factorial(n - 1)

\* popdensityV3 writes the quotient pop_sum / len(nodes).  The model keeps
\* the pop_density of a popdensityV3 run in units of 1/ShareScale, a
\* multiple of every possible number of roads, so that the quotient is exact.
ShareScale == Factorial(MaxRoads)

\* tile_to_nodes[key]: the roads (indexes in centers) whose nearest tile is key
tile_to_nodes(eng, keys, cs, key) ==
  { i \in 1..Len(cs) : find_nearest_tile(eng, keys, cs[i]) = key }

\* the tile's population handed whole to each of its roads
PerRoadUndivided(pop_sum, k) == ShareScale * pop_sum

\* per_road = pop_sum / float(len(nodes)) if pop_sum != 0.0 else 0.0
per_road(pop_sum, k) == IF pop_sum = 0 THEN 0 ELSE (ShareScale * pop_sum) \div k

\* td is not None and td > float(far_thresh_m), td the haversine distance
ZeroedFar(thr, p, q) == thr # None /\ HaversineExceeds(p, q, thr[1])

\* G.nodes[n]['pop_density'] = per_road for the nodes of every tile, then
\* d['pop_density'] = 0.0 for the nodes farther than the threshold
WriteShares(g, eng, thr, cs, itn, keys, tp) ==
  [n \in 1..Len(g) |->
     LET idx == { i \in 1..Len(itn) : itn[i] = n }
     IN IF idx = {} THEN g[n]
        ELSE LET i == CHOOSE j \in idx : TRUE
                 key == find_nearest_tile(eng, keys, cs[i])
                 share == per_road(tp[key],
                                   Cardinality(tile_to_nodes(eng, keys, cs, key)))
             IN [g[n] EXCEPT !.pop_density =
                   Some(IF ZeroedFar(thr, cs[i], CenterOf(key)) THEN 0 ELSE share)]]

\* V5fast walks the leftover tiles in index order, the others iterate a set.
NextPending(eng, keys, pending) ==
  IF eng.version = "V5fast" /\ pending # {}
  THEN { keys[Min({ i \in 1..Len(keys) : keys[i] \in pending })] }
  ELSE pending

\* The state before the first invocation; the arguments of the call are
\* drawn here and bound by CallStart.
InitWith(engs, graphs, sources, sorts, thresholds, verboses) ==
  /\ engine \in engs
  /\ verbose \in (IF engine.version \in { "V5slow", "V5fast" } THEN verboses
                   ELSE { FALSE })
  /\ G \in graphs
  /\ csv_exists \in BOOLEAN
  /\ rows \in (IF csv_exists THEN sources ELSE { << >> })
  /\ assume_sorted_by_lat \in sorts
  /\ far_thresh_m \in thresholds
  /\ pc = "idle"
  /\ outcome = "none"
  /\ calls = 0
  /\ centers = << >>
  /\ index_to_node = << >>
  /\ row_i = 0
  /\ seen_in_range = FALSE
  /\ tile_pop = EmptyMap
  /\ tile_keys = << >>
  /\ road_i = 0
  /\ tiles_used = {}
  /\ tiles_pending = {}
  /\ tiles_used_pass2 = {}
  /\ tiles_too_far_pass2 = 0
  /\ road_assignments = EmptyMap
  /\ road_tile_assignments = << >>
  /\ graph_attrs = None
  /\ summary = None

Init ==
  InitWith(Engines, Graphs, SeqsUpTo(TileRows, MaxRows), {TRUE}, Thresholds,
           {FALSE})

\* The CSV filter on every kind of row, in every order, with and without
\* the early exit; popdensityV3 on the rows of the box.
InitFilter ==
  \/ InitWith({[version |-> "V4", kd_tie |-> "first"]},
              SeqsUpTo(RoadsWithCenter, MaxRoads),
              SeqsUpTo(PlainTileRows \cup OtherRows, MaxRows), BOOLEAN, {None},
              {FALSE})
  \/ InitWith({[version |-> "V3", kd_tie |-> "first"]},
              SeqsUpTo(RoadsWithCenter, MaxRoads),
              SeqsUpTo(PlainTileRows, MaxRows), {TRUE}, {None}, {FALSE})

\* Field values of every kind (negative, zero, unparsable), in V3, V4 and
\* V5 (quiet and verbose), without a threshold.
InitValues ==
  InitWith({[version |-> "V4", kd_tie |-> "first"],
            [version |-> "V5slow", kd_tie |-> "first"],
            [version |-> "V3", kd_tie |-> "first"]},
           SeqsUpTo(RoadsWithCenter, MaxRoads),
           SeqsUpTo(ValueRows \cup BadRows, MaxRows), {TRUE}, {None}, BOOLEAN)

\* Graphs with a road at longitude 0 or with roads annotated beforehand,
\* and rows with two equidistant tiles, in the linear-scan engines.
InitNodes ==
  InitWith({[version |-> "V4", kd_tie |-> "first"],
            [version |-> "V5slow", kd_tie |-> "first"],
            [version |-> "V3", kd_tie |-> "first"]},
           SeqsUpTo(CallerRoads, MaxRoads),
           SeqsUpTo(TieRows, MaxRows), {TRUE}, {None}, {FALSE})

\* Roads and tiles whose order by distance differs between degrees and
\* metres, without and with a threshold of 25 m.
InitGeometry ==
  InitWith({[version |-> "V4", kd_tie |-> "first"],
            [version |-> "V5slow", kd_tie |-> "first"],
            [version |-> "V5fast", kd_tie |-> "first"],
            [version |-> "V3", kd_tie |-> "first"]},
           SeqsUpTo(GeometryRoads, MaxRoads),
           SeqsUpTo(GeometryRows, MaxRows), {TRUE}, {None, Some(25)}, {FALSE})

\* get_density on a graph that already carries pop_density: returns at once,
\* whatever arguments it was given.
CallAlreadyAnnotated ==
  /\ pc = "idle"
  /\ calls < MaxCalls
  /\ AlreadyAnnotated(G)
  /\ calls' = calls + 1
  /\ outcome' = "already_annotated"
  /\ UNCHANGED << caller, graph_attrs, engine, G, pc, frame >>

\* the empty road set raised as an error
CallNoCentersRaises ==
  /\ pc = "idle"
  /\ calls < MaxCalls
  /\ ~AlreadyAnnotated(G)
  /\ CentersOf(G) = << >>
  /\ G' = InitPopDensity(G)
  /\ calls' = calls + 1
  /\ outcome' = "EmptyInputError"
  /\ UNCHANGED << caller, graph_attrs, engine, pc, frame >>

\* get_density on a graph without any road center: zeroes and returns.
CallNoCenters ==
  /\ pc = "idle"
  /\ calls < MaxCalls
  /\ ~AlreadyAnnotated(G)
  /\ CentersOf(G) = << >>
  /\ G' = InitPopDensity(G)
  /\ calls' = calls + 1
  /\ outcome' = "no_centers"
  /\ UNCHANGED << caller, graph_attrs, engine, pc, frame >>

\* get_density up to the opening of the CSV reader.
CallStart ==
  /\ pc = "idle"
  /\ calls < MaxCalls
  /\ ~AlreadyAnnotated(G)
  /\ CentersOf(G) # << >>
  /\ csv_exists
  /\ G' = InitPopDensity(G)
  /\ centers' = CentersOf(G)
  /\ index_to_node' = NodesWithCenter(G, 1)
  /\ calls' = calls + 1
  /\ outcome' = "none"
  /\ pc' = "scan"
  /\ UNCHANGED << caller, graph_attrs,
                  engine, rows, assume_sorted_by_lat, far_thresh_m, verbose, row_i,
                  seen_in_range, tile_pop, tile_keys, road_i, tiles_used,
                  tiles_pending, tiles_used_pass2, tiles_too_far_pass2,
                  road_assignments, road_tile_assignments >>

\* the missing file taken for an empty source
CallMissingFileAsEmpty ==
  /\ pc = "idle"
  /\ calls < MaxCalls
  /\ ~AlreadyAnnotated(G)
  /\ CentersOf(G) # << >>
  /\ ~csv_exists
  /\ G' = InitPopDensity(G)
  /\ centers' = CentersOf(G)
  /\ index_to_node' = NodesWithCenter(G, 1)
  /\ calls' = calls + 1
  /\ outcome' = "no_tiles"
  /\ UNCHANGED << caller, graph_attrs, engine, pc, rows, assume_sorted_by_lat,
                  far_thresh_m, verbose, row_i, seen_in_range, tile_pop, tile_keys,
                  road_i, tiles_used, tiles_pending, tiles_used_pass2,
                  tiles_too_far_pass2, road_assignments, road_tile_assignments >>

\* get_density when open(csv_path) finds no file: the nodes are zeroed and
\* the centers built by then, and FileNotFoundError reaches the caller.
CallMissingFile ==
  /\ pc = "idle"
  /\ calls < MaxCalls
  /\ ~AlreadyAnnotated(G)
  /\ CentersOf(G) # << >>
  /\ ~csv_exists
  /\ G' = InitPopDensity(G)
  /\ centers' = CentersOf(G)
  /\ index_to_node' = NodesWithCenter(G, 1)
  /\ calls' = calls + 1
  /\ outcome' = "FileNotFoundError"
  /\ UNCHANGED << caller, graph_attrs, engine, pc, rows, assume_sorted_by_lat,
                  far_thresh_m, verbose, row_i, seen_in_range, tile_pop, tile_keys,
                  road_i, tiles_used, tiles_pending, tiles_used_pass2,
                  tiles_too_far_pass2, road_assignments, road_tile_assignments >>

\* One row of the CSV reader.
ScanRow ==
  /\ pc = "scan"
  /\ row_i < Len(rows)
  /\ LET st == FilterStep([tile_pop |-> tile_pop, tile_keys |-> tile_keys,
                           seen |-> seen_in_range, stop |-> FALSE],
                          rows[row_i + 1], BBox(centers), assume_sorted_by_lat)
     IN /\ tile_pop' = st.tile_pop
        /\ tile_keys' = st.tile_keys
        /\ seen_in_range' = st.seen
        /\ pc' = IF st.stop THEN "filtered" ELSE "scan"
  /\ row_i' = row_i + 1
  /\ UNCHANGED << caller, graph_attrs,
                  engine, G, outcome, calls, rows, assume_sorted_by_lat,
                  far_thresh_m, verbose, centers, index_to_node, road_i, tiles_used,
                  tiles_pending, tiles_used_pass2, tiles_too_far_pass2,
                  road_assignments, road_tile_assignments >>

\* The reader is exhausted.
ScanEnd ==
  /\ pc = "scan"
  /\ row_i = Len(rows)
  /\ pc' = "filtered"
  /\ UNCHANGED << caller, graph_attrs, engine, G, outcome, calls, frame >>

\* if not tile_pop: return G
ReturnNoTiles ==
  /\ pc = "filtered"
  /\ DOMAIN tile_pop = {}
  /\ pc' = "idle"
  /\ outcome' = "no_tiles"
  /\ UNCHANGED << caller, graph_attrs, engine, G, calls, frame >>

StartPass1 ==
  /\ pc = "filtered"
  /\ DOMAIN tile_pop # {}
  /\ engine.version # "V3"
  /\ pc' = "pass1"
  /\ UNCHANGED << caller, graph_attrs, engine, G, outcome, calls, frame >>

\* pass 1 leaving a tile to the first road that claimed it
Pass1RoadFirstClaim ==
  /\ pc = "pass1"
  /\ road_i < Len(centers)
  /\ LET idx == road_i + 1
         n == index_to_node[idx]
         key == find_nearest_tile(engine, tile_keys, centers[idx])
     IN IF key \in tiles_used
           \/ TooFar(engine.version, far_thresh_m, centers[idx], CenterOf(key))
        THEN UNCHANGED << tiles_used, road_assignments, road_tile_assignments >>
        ELSE /\ tiles_used' = tiles_used \cup { key }
             /\ road_assignments' = Accumulate(road_assignments, n, tile_pop[key])
             /\ road_tile_assignments' =
                  Append(road_tile_assignments, MkAssignment(n, key, 1, tile_pop[key]))
  /\ road_i' = road_i + 1
  /\ UNCHANGED << caller, graph_attrs,
                  engine, G, pc, outcome, calls, rows, assume_sorted_by_lat,
                  far_thresh_m, verbose, centers, index_to_node, row_i, seen_in_range,
                  tile_pop, tile_keys, tiles_pending, tiles_used_pass2,
                  tiles_too_far_pass2 >>

\* Pass 1, one road: nearest tile, threshold test, claim.
Pass1Road ==
  /\ pc = "pass1"
  /\ road_i < Len(centers)
  /\ LET idx == road_i + 1
         n == index_to_node[idx]
         key == find_nearest_tile(engine, tile_keys, centers[idx])
     IN IF TooFar(engine.version, far_thresh_m, centers[idx], CenterOf(key))
        THEN UNCHANGED << tiles_used, road_assignments, road_tile_assignments >>
        ELSE /\ tiles_used' = tiles_used \cup { key }
             /\ road_assignments' = Accumulate(road_assignments, n, tile_pop[key])
             /\ road_tile_assignments' =
                  Append(road_tile_assignments, MkAssignment(n, key, 1, tile_pop[key]))
  /\ road_i' = road_i + 1
  /\ UNCHANGED << caller, graph_attrs,
                  engine, G, pc, outcome, calls, rows, assume_sorted_by_lat,
                  far_thresh_m, verbose, centers, index_to_node, row_i, seen_in_range,
                  tile_pop, tile_keys, tiles_pending, tiles_used_pass2,
                  tiles_too_far_pass2 >>

\* pass 2 handed every tile of the box, the used ones included
Pass1EndKeepsUsed ==
  /\ pc = "pass1"
  /\ road_i = Len(centers)
  /\ tiles_pending' = DOMAIN tile_pop
  /\ pc' = "pass2"
  /\ UNCHANGED << caller, graph_attrs, engine, G, outcome, calls, rows,
                  assume_sorted_by_lat, far_thresh_m, verbose, centers, index_to_node,
                  row_i, seen_in_range, tile_pop, tile_keys, road_i, tiles_used,
                  tiles_used_pass2, tiles_too_far_pass2, road_assignments,
                  road_tile_assignments >>

\* tiles_remaining = set(tile_pop.keys()) - tiles_used_pass1
Pass1End ==
  /\ pc = "pass1"
  /\ road_i = Len(centers)
  /\ tiles_pending' = DOMAIN tile_pop \ tiles_used
  /\ pc' = "pass2"
  /\ UNCHANGED << caller, graph_attrs,
                  engine, G, outcome, calls, rows, assume_sorted_by_lat,
                  far_thresh_m, verbose, centers, index_to_node, row_i, seen_in_range,
                  tile_pop, tile_keys, road_i, tiles_used, tiles_used_pass2,
                  tiles_too_far_pass2, road_assignments, road_tile_assignments >>

\* Pass 2, one leftover tile: nearest road, threshold test, assign.
Pass2Tile ==
  /\ pc = "pass2"
  /\ \E key \in NextPending(engine, tile_keys, tiles_pending) :
       LET best_idx == find_nearest_road(engine, centers, key)
           n == index_to_node[best_idx]
       IN /\ tiles_pending' = tiles_pending \ { key }
          /\ IF TooFar(engine.version, far_thresh_m, CenterOf(key), centers[best_idx])
             THEN /\ tiles_too_far_pass2' = tiles_too_far_pass2 + 1
                  /\ UNCHANGED << tiles_used_pass2, road_assignments,
                                  road_tile_assignments >>
             ELSE /\ tiles_used_pass2' = tiles_used_pass2 \cup { key }
                  /\ road_assignments' = Accumulate(road_assignments, n, tile_pop[key])
                  /\ road_tile_assignments' =
                       Append(road_tile_assignments, MkAssignment(n, key, 2, tile_pop[key]))
                  /\ UNCHANGED tiles_too_far_pass2
  /\ UNCHANGED << caller, graph_attrs,
                  engine, G, pc, outcome, calls, rows, assume_sorted_by_lat,
                  far_thresh_m, verbose, centers, index_to_node, row_i, seen_in_range,
                  tile_pop, tile_keys, road_i, tiles_used >>

\* Aggregate, write pop_density on the nodes, print the coverage, store
\* the analysis data on the graph and return G.  The coverage line divides
\* by the population of the box: when that is 0 the call ends there with
\* ZeroDivisionError, the node attributes already written.
WriteAttrs ==
  /\ pc = "pass2"
  /\ tiles_pending = {}
  /\ G' = WritePopDensity(G, engine.version, road_assignments, road_tile_assignments)
  /\ pc' = "idle"
  /\ IF CoverageDivides(engine.version, verbose) /\ total_pop_bbox(tile_pop) = 0
     THEN /\ outcome' = "ZeroDivisionError"
          /\ UNCHANGED graph_attrs
     ELSE /\ outcome' = "assigned"
          /\ graph_attrs' = IF engine.version = "V4"
                            THEN AnalysisData(road_tile_assignments, tile_pop)
                            ELSE graph_attrs
  /\ UNCHANGED << caller, engine, calls, frame >>

\* popdensityV3.get_density after the filter: every road goes to its nearest
\* tile, each tile's population is shared among its roads, the roads
\* farther than the threshold are zeroed, and G is returned.
AssignShares ==
  /\ pc = "filtered"
  /\ DOMAIN tile_pop # {}
  /\ engine.version = "V3"
  /\ G' = WriteShares(G, engine, far_thresh_m, centers, index_to_node, tile_keys,
                      tile_pop)
  /\ pc' = "idle"
  /\ outcome' = "normalised"
  /\ UNCHANGED << caller, graph_attrs, engine, calls, frame >>

\* d.setdefault('pop_density', 0.0) in place of d.get('pop_density', 0.0)
AnalyzeDensitySetsDefault ==
  /\ pc = "idle"
  /\ engine.version = "V4"
  /\ summary' = Some(Summarize(G))
  /\ G' = [n \in 1..Len(G) |->
            IF G[n].pop_density = None THEN [G[n] EXCEPT !.pop_density = Some(0)]
            ELSE G[n]]
  /\ UNCHANGED << engine, pc, outcome, calls, frame, csv_exists, graph_attrs >>

\* analyze_density(G) of popdensityV4, between two calls of get_density.
AnalyzeDensity ==
  /\ pc = "idle"
  /\ engine.version = "V4"
  /\ summary' = Some(Summarize(G))
  /\ UNCHANGED << engine, G, pc, outcome, calls, frame, csv_exists, graph_attrs >>

Next ==
  \/ CallAlreadyAnnotated
  \/ CallNoCenters
  \/ CallStart
  \/ CallMissingFile
  \/ ScanRow
  \/ ScanEnd
  \/ ReturnNoTiles
  \/ StartPass1
  \/ Pass1Road
  \/ Pass1End
  \/ Pass2Tile
  \/ WriteAttrs
  \/ AssignShares
  \/ AnalyzeDensity

Spec == Init /\ [][Next]_vars

SpecFilter == InitFilter /\ [][Next]_vars

SpecValues == InitValues /\ [][Next]_vars

SpecNodes == InitNodes /\ [][Next]_vars

SpecGeometry == InitGeometry /\ [][Next]_vars

\* ------------------------------------------------------------------------
\* Definitions shared by the properties below
\* ------------------------------------------------------------------------
Returned(how) == pc = "idle" /\ outcome = how

PopDensityOf(n) == G[n].pop_density[1]

TotalPopDensity ==
  SumMap([n \in 1..Len(G) |-> PopDensityOf(n)], 1..Len(G))

AssignmentIdx == 1..Len(road_tile_assignments)

\* ------------------------------------------------------------------------
\* C1  Single-assignment: every tile key is assigned to at most one road
\*     across pass 1 and pass 2 together.
\* ------------------------------------------------------------------------
SingleAssignment ==
  \A i, j \in AssignmentIdx :
    i # j => road_tile_assignments[i].key # road_tile_assignments[j].key

\* ------------------------------------------------------------------------
\* C2  Conservation: after a run the sum of pop_density over all roads is the
\*     sum of the populations of the tiles used in pass 1 or pass 2, each
\*     used tile counted once.
\* ------------------------------------------------------------------------
Conservation ==
  Returned("assigned") =>
    TotalPopDensity = SumMap(tile_pop, tiles_used \cup tiles_used_pass2)

\* ------------------------------------------------------------------------
\* C3  Idempotence: get_density on a road set whose roads already carry
\*     pop_density returns at once and changes no road attribute; a second
\*     invocation after a first one therefore leaves pop_density as it was.
\* ------------------------------------------------------------------------
AllCarryPopDensity == \A n \in 1..Len(G) : G[n].pop_density # None

Idempotence ==
  [][(pc = "idle" /\ (calls >= 1 \/ AllCarryPopDensity))
       => (G' = G /\ pc' = "idle")]_vars

IdempotenceWitness ==
  /\ calls = 2
  /\ Returned("already_annotated")
  /\ \E n \in 1..Len(G) : PopDensityOf(n) > 0

\* ------------------------------------------------------------------------
\* The outcome of both passes as a function of the threshold: the same
\* per-road and per-tile decisions the actions Pass1Road and Pass2Tile take.
\* ------------------------------------------------------------------------
Range(q) == { q[i] : i \in 1..Len(q) }

AcceptedRoads(eng, thr, cs, keys) ==
  { i \in 1..Len(cs) :
      ~TooFar(eng.version, thr, cs[i], CenterOf(find_nearest_tile(eng, keys, cs[i]))) }

RunUsedPass1(eng, thr, cs, keys) ==
  { find_nearest_tile(eng, keys, cs[i]) : i \in AcceptedRoads(eng, thr, cs, keys) }

RunUsedPass2(eng, thr, cs, keys) ==
  { k \in Range(keys) \ RunUsedPass1(eng, thr, cs, keys) :
      ~TooFar(eng.version, thr, CenterOf(k), cs[find_nearest_road(eng, cs, k)]) }

RunTilesUsed(eng, thr, cs, keys) ==
  Cardinality(RunUsedPass1(eng, thr, cs, keys))
    + Cardinality(RunUsedPass2(eng, thr, cs, keys))

RunTotalAssigned(eng, thr, cs, keys, tp) ==
  SumMap([i \in 1..Len(cs) |-> tp[find_nearest_tile(eng, keys, cs[i])]],
         AcceptedRoads(eng, thr, cs, keys))
    + SumMap(tp, RunUsedPass2(eng, thr, cs, keys))

\* what road i of cs ends with: its nearest tile if accepted in pass 1, and
\* the leftover tiles pass 2 hands to it
RunPopDensity(eng, thr, cs, keys, tp, i) ==
  (IF i \in AcceptedRoads(eng, thr, cs, keys)
   THEN tp[find_nearest_tile(eng, keys, cs[i])] ELSE 0)
    + SumMap(tp, { k \in RunUsedPass2(eng, thr, cs, keys) :
                     find_nearest_road(eng, cs, k) = i })

\* ------------------------------------------------------------------------
\* C4  Threshold monotonicity: for the same roads and rows and two finite
\*     thresholds t1 <= t2 (0 included), the run with t1 uses no more tiles
\*     and assigns no more population than the run with t2.
\* ------------------------------------------------------------------------
ThresholdMonotonicity ==
  (Returned("assigned") /\ far_thresh_m # None) =>
    \A t2 \in Thresholds \ { None } :
      far_thresh_m[1] <= t2[1] =>
        /\ Cardinality(tiles_used) + Cardinality(tiles_used_pass2)
             <= RunTilesUsed(engine, t2, centers, tile_keys)
        /\ TotalPopDensity
             <= RunTotalAssigned(engine, t2, centers, tile_keys, tile_pop)

\* ------------------------------------------------------------------------
\* C5  Degenerate threshold: with a threshold of 0 and no tile center on a
\*     road center, every attempt of pass 1 and pass 2 is rejected: no tile
\*     is used and every road keeps pop_density 0.
\* ------------------------------------------------------------------------
NoCoincidence ==
  \A i \in 1..Len(centers), k \in DOMAIN tile_pop : centers[i] # CenterOf(k)

DegenerateThreshold ==
  (calls = 1 /\ far_thresh_m = Some(0) /\ NoCoincidence) =>
    /\ tiles_used = {}
    /\ tiles_used_pass2 = {}
    /\ road_tile_assignments = << >>
    /\ \A n \in 1..Len(G) : G[n].pop_density = Some(0)

\* ------------------------------------------------------------------------
\* Definitions about the row source, stated without the filter's own
\* operators
\* ------------------------------------------------------------------------
Parsable(row) ==
  row.lon.form # "bad" /\ row.lat.form # "bad" /\ row.pop.form # "bad"

RowLon(row) == row.lon.num
RowLat(row) == row.lat.num
RowVal(row) == row.pop.num

\* strictly inside the min/max box of the road centers
StrictlyInsideRoadBox(row) ==
  /\ \E i \in 1..Len(centers) : centers[i][1] < RowLon(row)
  /\ \E i \in 1..Len(centers) : centers[i][1] > RowLon(row)
  /\ \E i \in 1..Len(centers) : centers[i][2] < RowLat(row)
  /\ \E i \in 1..Len(centers) : centers[i][2] > RowLat(row)

\* outside the min/max box of the road centers extended by the tile half-width
OutsidePaddedBox(lon, lat) ==
  \/ \A i \in 1..Len(centers) : lon < centers[i][1] - tile_half_ddeg
  \/ \A i \in 1..Len(centers) : lon > centers[i][1] + tile_half_ddeg
  \/ \A i \in 1..Len(centers) : lat < centers[i][2] - tile_half_ddeg
  \/ \A i \in 1..Len(centers) : lat > centers[i][2] + tile_half_ddeg

\* the parsable rows come in ascending latitude
SortedByLat(rs) ==
  \A i, j \in 1..Len(rs) :
    (i < j /\ Parsable(rs[i]) /\ Parsable(rs[j])) => RowLat(rs[i]) <= RowLat(rs[j])

FilterFinished == pc \in { "filtered", "pass1", "pass2" } \/ Returned("assigned")
                    \/ Returned("no_tiles") \/ Returned("normalised")

\* ------------------------------------------------------------------------
\* C6  Box completeness, as claimed: every parsable row strictly inside the
\*     un-padded box of the road centers yields a tile of the filtered set,
\*     for every row order and both values of assume_sorted_by_lat.
\* ------------------------------------------------------------------------
BoxCompletenessAnyOrder ==
  FilterFinished =>
    \A i \in 1..Len(rows) :
      (Parsable(rows[i]) /\ StrictlyInsideRoadBox(rows[i]))
        => KeyOf(rows[i]) \in DOMAIN tile_pop

\* C6 as amended: the same, for every row order when assume_sorted_by_lat
\*     is false, and for rows in ascending latitude when it is true.
BoxCompleteness ==
  (FilterFinished /\ (~assume_sorted_by_lat \/ SortedByLat(rows))) =>
    \A i \in 1..Len(rows) :
      (Parsable(rows[i]) /\ StrictlyInsideRoadBox(rows[i]))
        => KeyOf(rows[i]) \in DOMAIN tile_pop

BoxCompletenessWitness ==
  /\ pc = "filtered"
  /\ ~assume_sorted_by_lat
  /\ ~SortedByLat(rows)
  /\ \E i, j \in 1..Len(rows) :
       /\ i < j
       /\ Parsable(rows[i]) /\ RowLat(rows[i]) > BBox(centers).north
       /\ Parsable(rows[j]) /\ StrictlyInsideRoadBox(rows[j])
       /\ KeyOf(rows[j]) \in DOMAIN tile_pop

\* ------------------------------------------------------------------------
\* C7  Null threshold: with far_thresh_m = None, after the run every tile
\*     of the filtered set is used (pass 1 or pass 2) and every road with a
\*     center has received its nearest tile (nearest in the metric of the
\*     run's nearest search), whatever the distance.
\* ------------------------------------------------------------------------
SearchDistance(p, q) ==
  IF engine.version = "V5fast" THEN Scaled4(p, q) ELSE D2(p, q)

IsNearestTile(key, p) ==
  \A other \in DOMAIN tile_pop :
    SearchDistance(p, CenterOf(key)) <= SearchDistance(p, CenterOf(other))

Retained(i) ==
  /\ i <= row_i
  /\ Parsable(rows[i])
  /\ ~OutsidePaddedBox(RowLon(rows[i]), RowLat(rows[i]))

SumRetained(key) ==
  SumMap([i \in 1..Len(rows) |-> RowVal(rows[i])],
         { i \in 1..Len(rows) : Retained(i) /\ KeyOf(rows[i]) = key })

DuplicateAggregation ==
  /\ \A key \in DOMAIN tile_pop : tile_pop[key] = SumRetained(key)
  /\ \A a \in AssignmentIdx :
       /\ road_tile_assignments[a].key \in DOMAIN tile_pop
       /\ road_tile_assignments[a].pop = tile_pop[road_tile_assignments[a].key]
  /\ \A n \in DOMAIN road_assignments :
       road_assignments[n] = SumPops(road_tile_assignments, n)
  /\ Returned("assigned") =>
       \A n \in DOMAIN road_assignments : PopDensityOf(n) = road_assignments[n]

DuplicateAggregationWitness ==
  /\ Returned("assigned")
  /\ \E a \in AssignmentIdx, i, j \in 1..Len(rows) :
       /\ i < j
       /\ Retained(i) /\ Retained(j)
       /\ rows[i] # rows[j]
       /\ KeyOf(rows[i]) = road_tile_assignments[a].key
       /\ KeyOf(rows[j]) = road_tile_assignments[a].key
       /\ PopDensityOf(road_tile_assignments[a].node)
            >= RowVal(rows[i]) + RowVal(rows[j])

\* ------------------------------------------------------------------------
\* C9  Early-exit equivalence: on rows in ascending latitude the filter with
\*     assume_sorted_by_lat = TRUE yields the tile mapping of the full scan,
\*     and with assume_sorted_by_lat = FALSE it reads up to the last row.
\* ------------------------------------------------------------------------
RECURSIVE FullScan(_, _, _)
FullScan(st, rs, box) ==
  IF rs = << >> THEN st
  ELSE FullScan(FilterStep(st, Head(rs), box, FALSE), Tail(rs), box)

EarlyExitEquivalence ==
  FilterFinished =>
    /\ (assume_sorted_by_lat /\ SortedByLat(rows)) =>
         LET full == FullScan(NoTiles, rows, BBox(centers))
         IN tile_pop = full.tile_pop /\ tile_keys = full.tile_keys
    /\ ~assume_sorted_by_lat => row_i = Len(rows)

EarlyExitEquivalenceWitness ==
  /\ pc = "filtered"
  /\ assume_sorted_by_lat
  /\ SortedByLat(rows)
  /\ row_i < Len(rows)
  /\ DOMAIN tile_pop # {}

\* ------------------------------------------------------------------------
\* C10 Bounding-box exclusion: a row outside the padded box (min/max of the
\*     road centers extended by tile_half_ddeg) never becomes a tile and
\*     contributes to no road's pop_density, in either pass.
\* ------------------------------------------------------------------------
BBoxExclusion ==
  /\ \A key \in DOMAIN tile_pop :
       ~OutsidePaddedBox(CenterOf(key)[1], CenterOf(key)[2])
  /\ \A a \in AssignmentIdx :
       LET key == road_tile_assignments[a].key
       IN /\ ~OutsidePaddedBox(CenterOf(key)[1], CenterOf(key)[2])
          /\ road_tile_assignments[a].pop = SumRetained(key)
  /\ Returned("assigned") =>
       \A n \in 1..Len(G) : PopDensityOf(n) = SumPops(road_tile_assignments, n)

BBoxExclusionWitness ==
  /\ Returned("assigned")
  /\ \E i \in 1..Len(rows) :
       /\ i <= row_i
       /\ Parsable(rows[i])
       /\ OutsidePaddedBox(RowLon(rows[i]), RowLat(rows[i]))
       /\ RowLat(rows[i]) <= BBox(centers).north
       /\ RowLat(rows[i]) >= BBox(centers).south
  /\ \E n \in 1..Len(G) : PopDensityOf(n) > 0

\* ------------------------------------------------------------------------
\* C11 Fallback equivalence: for the same roads, tiles and threshold the
\*     indexed path (_get_density_fast) decides as the linear-scan path
\*     (_get_density_slow) does: the same tiles claimed in pass 1, the same
\*     tiles assigned in pass 2, the same pop_density on every road.
\* ------------------------------------------------------------------------
SlowPath == [version |-> "V5slow", kd_tie |-> "first"]

NoRowInBox ==
  \A i \in 1..Len(rows) :
    Parsable(rows[i]) => OutsidePaddedBox(RowLon(rows[i]), RowLat(rows[i]))

EmptyInputNonFatal ==
  (pc = "idle" /\ calls = 1
     /\ (CentersOf(G) = << >> \/ (csv_exists /\ NoRowInBox))) =>
    /\ outcome \in { "no_centers", "no_tiles" }
    /\ \A n \in 1..Len(G) : G[n].pop_density = Some(0)

EmptyInputNonFatalWitness ==
  /\ Returned("no_tiles")
  /\ calls = 1
  /\ row_i = Len(rows) /\ Len(rows) > 0
  /\ \E n \in 1..Len(G) : center_from_node_data(G[n]) = None

\* ------------------------------------------------------------------------
\* C13 Unparsable rows: a row with a longitude, latitude or population
\*     that does not parse is skipped without an error, leaves the tile
\*     mapping as it was, and the scan goes on with the next row.
\* ------------------------------------------------------------------------
UnparsableRowSkipped ==
  [][(pc = "scan" /\ row_i < Len(rows) /\ ~Parsable(rows[row_i + 1])) =>
       /\ tile_pop' = tile_pop
       /\ tile_keys' = tile_keys
       /\ seen_in_range' = seen_in_range
       /\ row_i' = row_i + 1
       /\ pc' = "scan"
       /\ outcome' = outcome
       /\ G' = G]_vars

UnparsableRowSkippedWitness ==
  /\ pc = "filtered"
  /\ row_i = 3
  /\ \E i \in 1..2 :
       /\ ~Parsable(rows[i])
       /\ rows[i].pop.form = "bad"
       /\ Parsable(rows[i + 1])
       /\ KeyOf(rows[i + 1]) \in DOMAIN tile_pop
       /\ tile_pop[KeyOf(rows[i + 1])] = SumRetained(KeyOf(rows[i + 1]))

\* ------------------------------------------------------------------------
\* C14 Roads without a center: a road with neither a geometry nor
\*     coordinate attributes is left out of the centers (hence of the
\*     bounding box and of both passes), is the target of no assignment and
\*     ends the run with pop_density 0, while the centers of the other
\*     roads are taken in node order as if the road were not there.
\* ------------------------------------------------------------------------
HasNoCenterAttrs(data) == data.geometry = None /\ data.x = None /\ data.y = None

RoadsBefore(n) == { m \in 1..n : ~HasNoCenterAttrs(G[m]) }

CenterlessRoadExcluded ==
  /\ \A n \in 1..Len(G) :
       HasNoCenterAttrs(G[n]) =>
         /\ \A i \in 1..Len(index_to_node) : index_to_node[i] # n
         /\ \A a \in AssignmentIdx : road_tile_assignments[a].node # n
         /\ n \notin DOMAIN road_assignments
         /\ (pc = "idle" /\ calls >= 1) => G[n].pop_density = Some(0)
  /\ (calls >= 1 /\ outcome # "no_centers") =>
       /\ Len(centers) = Cardinality(RoadsBefore(Len(G)))
       /\ Len(index_to_node) = Len(centers)
       /\ \A n \in 1..Len(G) :
            ~HasNoCenterAttrs(G[n]) =>
              LET i == Cardinality(RoadsBefore(n))
              IN /\ index_to_node[i] = n
                 /\ centers[i] = IF G[n].geometry # None THEN G[n].geometry[1]
                                  ELSE << G[n].x[1], G[n].y[1] >>

CenterlessRoadExcludedWitness ==
  /\ Returned("assigned")
  /\ Len(G) = 2
  /\ HasNoCenterAttrs(G[1])
  /\ G[1].pop_density = Some(0)
  /\ PopDensityOf(2) > 0

\* ------------------------------------------------------------------------
\* C15 Missing source file, as claimed: whenever the population CSV does
\*     not exist, a call of get_density ends with FileNotFoundError instead
\*     of returning a result.
\* ------------------------------------------------------------------------
MissingFileAlwaysFatal ==
  (pc = "idle" /\ calls >= 1 /\ ~csv_exists) => outcome = "FileNotFoundError"

\* C15 as amended: when the population CSV does not exist and the call
\*     gets as far as opening it (no road carries pop_density yet and at
\*     least one road has a resolvable center), it ends with
\*     FileNotFoundError instead of returning a result.
MissingFileFatal ==
  [][(/\ pc = "idle"
      /\ calls' = calls + 1
      /\ ~csv_exists
      /\ \A n \in 1..Len(G) : G[n].pop_density = None
      /\ \E n \in 1..Len(G) : center_from_node_data(G[n]) # None)
       => (outcome' = "FileNotFoundError" /\ pc' = "idle")]_vars

MissingFileFatalWitness ==
  /\ pc = "idle"
  /\ outcome = "FileNotFoundError"
  /\ calls = 1
  /\ ~csv_exists
  /\ Len(centers) = 1 /\ Len(G) = 2

\* ------------------------------------------------------------------------
\* C16 Output range: after a run on a graph that was not annotated, every
\*     road's pop_density is a number >= 0, whatever parsable rows the
\*     filter accepted.
\* ------------------------------------------------------------------------
OutputRange ==
  (pc = "idle" /\ calls >= 1) =>
    \A n \in 1..Len(G) : G[n].pop_density # None /\ G[n].pop_density[1] >= 0

\* ------------------------------------------------------------------------
\* C17 Bounding-box extraction, as claimed: when no road has a resolvable
\*     center the extraction fails with EmptyInputError; the call does not
\*     return normally.
\* ------------------------------------------------------------------------
NoRoadResolves == \A n \in 1..Len(G) : center_from_node_data(G[n]) = None

NoPositivePopDensity ==
  \A n \in 1..Len(G) : G[n].pop_density = None \/ G[n].pop_density[1] <= 0

DistanceExceeds(version, t, p, q) ==
  IF version = "V4" THEN HaversineExceeds(p, q, t)
  ELSE IF version = "V5slow" THEN DegreesExceed(p, q, t)
       ELSE ScaledDegreesExceed(p, q, t)

RejectedQuery ==
  (/\ pc = "pass1" /\ road_i < Len(centers)
   /\ far_thresh_m # None
   /\ DistanceExceeds(engine.version, far_thresh_m[1], centers[road_i + 1],
          CenterOf(find_nearest_tile(engine, tile_keys, centers[road_i + 1]))))
    => /\ tiles_used' = tiles_used
       /\ road_assignments' = road_assignments
       /\ road_tile_assignments' = road_tile_assignments
       /\ road_i' = road_i + 1

LeftoverSet ==
  (pc = "pass1" /\ pc' = "pass2") => tiles_pending' = DOMAIN tile_pop \ tiles_used

Pass1ThresholdRule == [][RejectedQuery /\ LeftoverSet]_vars

\* ------------------------------------------------------------------------
\* C20 Pass ordering and termination: pass 2 starts only when pass 1 has
\*     processed every road, with exactly the tiles pass 1 left unused;
\*     every step of pass 2 takes one of them off the pending set (so each
\*     is queried once and the pass ends after as many steps), assigns no
\*     tile claimed in pass 1, and after the last one the call returns:
\*     no step leads back to an earlier phase.
\* ------------------------------------------------------------------------
Pass2Step(key) ==
  /\ key \notin tiles_used
  /\ key \notin tiles_used_pass2
  /\ tiles_pending' = tiles_pending \ { key }
  /\ tiles_used' = tiles_used
  /\ road_i' = road_i
  /\ \/ /\ tiles_used_pass2' = tiles_used_pass2 \cup { key }
        /\ tiles_too_far_pass2' = tiles_too_far_pass2
        /\ Len(road_tile_assignments') = Len(road_tile_assignments) + 1
        /\ road_tile_assignments'[Len(road_tile_assignments')].key = key
        /\ road_tile_assignments'[Len(road_tile_assignments')].pass = 2
     \/ /\ tiles_used_pass2' = tiles_used_pass2
        /\ tiles_too_far_pass2' = tiles_too_far_pass2 + 1
        /\ road_tile_assignments' = road_tile_assignments

PassOrdering ==
  [][/\ (pc # "pass2" /\ pc' = "pass2")
        => /\ pc = "pass1"
           /\ road_i = Len(centers)
           /\ tiles_pending' = DOMAIN tile_pop \ tiles_used
           /\ tiles_used_pass2' = {} /\ tiles_too_far_pass2' = 0
     /\ pc = "pass1" => pc' \in { "pass1", "pass2" }
     /\ pc = "pass2"
        => \/ /\ pc' = "pass2"
              /\ \E key \in tiles_pending : Pass2Step(key)
           \/ /\ pc' = "idle"
              /\ tiles_pending = {}
              /\ Cardinality(tiles_used_pass2) + tiles_too_far_pass2
                   = Cardinality(DOMAIN tile_pop \ tiles_used)
              /\ UNCHANGED << tiles_used, tiles_used_pass2, tiles_too_far_pass2,
                              road_tile_assignments >>
     /\ (pc = "idle" /\ pc' # "idle") => calls' = calls + 1]_vars

PassOrderingWitness ==
  /\ Returned("assigned")
  /\ far_thresh_m # None
  /\ tiles_used # {}
  /\ tiles_used_pass2 # {}

\* ------------------------------------------------------------------------
\* C21 Road accumulator: after a run each road's pop_density is the sum of
\*     the aggregated populations of exactly the tiles recorded for it (its
\*     pass-1 tile if that was accepted, and every pass-2 tile whose nearest
\*     road it is), and 0 for a road without a recorded assignment.
\* ------------------------------------------------------------------------
RecordsOf(n) == { a \in AssignmentIdx : road_tile_assignments[a].node = n }

RecordedTiles(n, pass) ==
  { road_tile_assignments[a].key :
      a \in { r \in RecordsOf(n) : road_tile_assignments[r].pass = pass } }

IndexOfNode(n) == { i \in 1..Len(index_to_node) : index_to_node[i] = n }

FirstRowOf(key) ==
  Min({ i \in 1..Len(rows) : Retained(i) /\ KeyOf(rows[i]) = key })

TieBreak ==
  engine.version \in { "V4", "V5slow" } =>
    \A a \in AssignmentIdx :
      LET rec == road_tile_assignments[a]
      IN \E i \in IndexOfNode(rec.node) :
           IF rec.pass = 1
           THEN \A other \in DOMAIN tile_pop :
                  \/ D2(centers[i], CenterOf(rec.key)) < D2(centers[i], CenterOf(other))
                  \/ /\ D2(centers[i], CenterOf(rec.key)) = D2(centers[i], CenterOf(other))
                     /\ FirstRowOf(rec.key) <= FirstRowOf(other)
           ELSE \A j \in 1..Len(centers) :
                  \/ D2(CenterOf(rec.key), centers[i]) < D2(CenterOf(rec.key), centers[j])
                  \/ /\ D2(CenterOf(rec.key), centers[i]) = D2(CenterOf(rec.key), centers[j])
                     /\ i <= j

TieBreakWitness ==
  /\ Returned("assigned")
  /\ Len(centers) = 2
  /\ \E a, b \in AssignmentIdx :
       LET first == road_tile_assignments[a]
           second == road_tile_assignments[b]
       IN /\ first.pass = 1 /\ second.pass = 2
          /\ first.key # second.key
          /\ D2(centers[1], CenterOf(first.key)) = D2(centers[1], CenterOf(second.key))
          /\ D2(CenterOf(second.key), centers[1]) = D2(CenterOf(second.key), centers[2])
          /\ second.node = index_to_node[1]
          /\ FirstRowOf(first.key) < FirstRowOf(second.key)
          /\ CenterOf(first.key)[1] < CenterOf(second.key)[1]

\* ------------------------------------------------------------------------
\* C23 Coverage completeness: after a run with a finite threshold a tile of
\*     the filtered set is left unused only if every road center is
\*     farther from it than the threshold, in the distance the run
\*     measures; a tile with some road within the threshold is used.
\* ------------------------------------------------------------------------
CoverageCompleteness ==
  (Returned("assigned") /\ far_thresh_m # None) =>
    \A k \in DOMAIN tile_pop \ (tiles_used \cup tiles_used_pass2) :
      \A i \in 1..Len(centers) :
        DistanceExceeds(engine.version, far_thresh_m[1], centers[i], CenterOf(k))

\* ------------------------------------------------------------------------
\* C24 Zero total population: when the filtered tile set is not empty and
\*     its populations (none negative) add up to 0, get_density still
\*     completes without an error, stores its results and returns the graph
\*     with pop_density 0 on every road.
\* ------------------------------------------------------------------------
ZeroTotal ==
  /\ DOMAIN tile_pop # {}
  /\ \A k \in DOMAIN tile_pop : tile_pop[k] >= 0
  /\ SumMap(tile_pop, DOMAIN tile_pop) = 0

ZeroTotalCompletes ==
  (pc = "idle" /\ calls = 1 /\ ZeroTotal) =>
    /\ outcome \in { "assigned", "normalised" }
    /\ \A n \in 1..Len(G) : G[n].pop_density = Some(0)
    /\ engine.version = "V4" => graph_attrs # None

\* ------------------------------------------------------------------------
\* C25 No partial state on failure: when a call ends with the missing-file
\*     error the roads are left without pop_density, so that the guard of
\*     the next call does not take the graph for an annotated one.
\* ------------------------------------------------------------------------
NoPartialState ==
  (pc = "idle" /\ outcome = "FileNotFoundError") =>
    /\ \A n \in 1..Len(G) : G[n].pop_density = None
    /\ ~AlreadyAnnotated(G)

\* ------------------------------------------------------------------------
\* C26 Every segment annotated: whenever get_density returns normally every
\*     road carries a pop_density, also when only some of the roads
\*     carried one on entry.
\* ------------------------------------------------------------------------
ReturnedNormally ==
  /\ pc = "idle"
  /\ calls >= 1
  /\ outcome \in { "already_annotated", "no_centers", "no_tiles", "assigned",
                   "normalised" }

EverySegmentAnnotated == ReturnedNormally => AllCarryPopDensity

\* ------------------------------------------------------------------------
\* C27 Zero coordinates resolvable: a road without a geometry whose x and y
\*     are numbers, 0 included, has a center, the pair (x, y), and takes
\*     part in the run.
\* ------------------------------------------------------------------------
HasNumericXY(data) == data.geometry = None /\ data.x # None /\ data.y # None

ZeroCoordinatesResolve ==
  (calls = 1 /\ outcome # "already_annotated") =>
    \A n \in 1..Len(G) :
      HasNumericXY(G[n]) =>
        /\ center_from_node_data(G[n]) = Some(<< G[n].x[1], G[n].y[1] >>)
        /\ \E i \in IndexOfNode(n) : centers[i] = << G[n].x[1], G[n].y[1] >>

\* ------------------------------------------------------------------------
\* C28 Coverage fraction: with tile populations >= 0 the population
\*     assigned to the roads is at most the population of the filtered
\*     tiles, and the number of tiles used at most the number of filtered
\*     tiles.
\* ------------------------------------------------------------------------
CoverageBound ==
  (Returned("assigned") /\ \A k \in DOMAIN tile_pop : tile_pop[k] >= 0) =>
    /\ TotalPopDensity <= SumMap(tile_pop, DOMAIN tile_pop)
    /\ SumMap([a \in AssignmentIdx |-> road_tile_assignments[a].pop], AssignmentIdx)
         <= SumMap(tile_pop, DOMAIN tile_pop)
    /\ Cardinality(tiles_used) + Cardinality(tiles_used_pass2)
         <= Cardinality(DOMAIN tile_pop)

\* ------------------------------------------------------------------------
\* C29 Order independence: when no two tiles are at the same distance from
\*     a road and no two roads at the same distance from a tile, the
\*     pop_density of every road and the tiles used in each pass are the
\*     same for every order of the roads in pass 1 and every order in which
\*     pass 2 visits the leftover tiles.
\* ------------------------------------------------------------------------
Perms(n) ==
  { f \in [1..n -> 1..n] : \A i, j \in 1..n : f[i] = f[j] => i = j }

Reordered(cs, f) == [i \in 1..Len(cs) |-> cs[f[i]]]

NoDistanceTies ==
  /\ \A i \in 1..Len(centers), k1, k2 \in DOMAIN tile_pop :
       k1 # k2 => SearchDistance(centers[i], CenterOf(k1))
                    # SearchDistance(centers[i], CenterOf(k2))
  /\ \A k \in DOMAIN tile_pop, i, j \in 1..Len(centers) :
       i # j => SearchDistance(centers[i], CenterOf(k))
                  # SearchDistance(centers[j], CenterOf(k))

OrderIndependence ==
  (Returned("assigned") /\ NoDistanceTies) =>
    \A f \in Perms(Len(centers)) :
      LET cs == Reordered(centers, f)
      IN /\ tiles_used = RunUsedPass1(engine, far_thresh_m, cs, tile_keys)
         /\ tiles_used_pass2 = RunUsedPass2(engine, far_thresh_m, cs, tile_keys)
         /\ \A i \in 1..Len(cs) :
              PopDensityOf(index_to_node[f[i]])
                = RunPopDensity(engine, far_thresh_m, cs, tile_keys, tile_pop, i)

OrderIndependenceWitness ==
  /\ Returned("assigned")
  /\ NoDistanceTies
  /\ Len(centers) = 2
  /\ Cardinality(DOMAIN tile_pop \ tiles_used) = 2
  /\ Cardinality(tiles_used_pass2) = 1
  /\ tiles_too_far_pass2 = 1
  /\ road_tile_assignments[Len(road_tile_assignments)].pass = 2
  /\ \E n \in 1..Len(G) : PopDensityOf(n) = 10

\* ------------------------------------------------------------------------
\* C30 Share normalisation in popdensityV3: with far_thresh_m = None a tile
\*     that is the nearest tile of k >= 1 roads gives each of them
\*     population / k, so that the pop_density of all roads adds up to the
\*     population of the tiles nearest to at least one road; with a finite
\*     far_thresh_m the roads farther than it from their tile are set to 0
\*     and the shares of the other roads stay as they were.
\* ------------------------------------------------------------------------
FirstNearestTile(p) ==
  tile_keys[Min({ j \in 1..Len(tile_keys) : IsNearestTile(tile_keys[j], p) })]

SharingRoads(i) ==
  { j \in 1..Len(centers) : FirstNearestTile(centers[j]) = FirstNearestTile(centers[i]) }

FarFromTile(i) ==
  /\ far_thresh_m # None
  /\ HaversineExceeds(centers[i], CenterOf(FirstNearestTile(centers[i])),
                      far_thresh_m[1])

ShareNormalisation ==
  Returned("normalised") =>
    /\ \A i \in 1..Len(centers) :
         Cardinality(SharingRoads(i)) * PopDensityOf(index_to_node[i])
           = IF FarFromTile(i) THEN 0
             ELSE ShareScale * tile_pop[FirstNearestTile(centers[i])]
    /\ \A n \in 1..Len(G) : IndexOfNode(n) = {} => PopDensityOf(n) = 0
    /\ far_thresh_m = None =>
         TotalPopDensity
           = ShareScale * SumMap(tile_pop, { FirstNearestTile(centers[i]) :
                                               i \in 1..Len(centers) })

ShareNormalisationWitness ==
  /\ Returned("normalised")
  /\ \E i, j \in 1..Len(centers) :
       /\ i # j
       /\ j \in SharingRoads(i)
       /\ FarFromTile(i) /\ ~FarFromTile(j)
       /\ PopDensityOf(index_to_node[i]) = 0
       /\ 2 * PopDensityOf(index_to_node[j])
            = ShareScale * tile_pop[FirstNearestTile(centers[j])]
       /\ PopDensityOf(index_to_node[j]) > 0
====
